---- MODULE Spec2Model ----
(***************************************************************************)
(* The App component of src/src/App.tsx as a state machine: the React      *)
(* state and refs of the component, the browser objects its handlers       *)
(* create (audio streams, MediaRecorders, interval timers, fetch calls),   *)
(* and one action per event the component reacts to.  Handlers are run     *)
(* by the events the rendered interface can deliver: a button that is      *)
(* disabled or not rendered delivers nothing.                              *)
(***************************************************************************)
EXTENDS Integers, Sequences, FiniteSets, TLC

\* ------------------------------------------------------------------ bounds
MaxStarts == 2      \* startRecording invocations in one run
MaxChunks == 1      \* length at which the chunk list stops growing
MaxTime == 1        \* value at which the timer ticks are cut off
MaxInFlight == 2    \* requests of one orchestrator pending at the same time
MaxQuick == 1       \* quick query buttons that get clicked
ConsoleLines == 2   \* lines of the console that are kept
MaxRows == 12       \* rows of the longest query result

\* queryResult.result.slice(0, 10) and result.length > 10: the page length
PageRows == 10

\* ------------------------------------------------------------------ values
\* A nullable value is a sequence of length 0 (null) or 1.
None == <<>>
Some(x) == <<x>>

MicMsg == "Failed to access microphone. Please check permissions and try again."
ValidationMsg == "Please select a valid audio file (.wav, .mp3, .m4a)"
BackendHint == ". Please ensure the backend server is running."

\* what the environment can hand to the component; the content of a file is
\* a list of chunks, 0 being what a file picked from the disk holds
UploadFiles ==
  { [name |-> "report.wav", type |-> "audio/wav", data |-> <<0>>],
    [name |-> "notes.txt", type |-> "text/plain", data |-> <<0>>],
    [name |-> "clip.mp3", type |-> "", data |-> <<0>>] }
FileLists == {<<>>} \cup { <<f>> : f \in UploadFiles }
QueryInputs == {"", " "}
quickQueries ==
  << "Show me recent pollution reports",
     "What are the most common pollution types?",
     "List all water pollution incidents",
     "Show reports with location data" >>

VARIABLES
  isRecording, audioFile, analysisResult, queryResult, isAnalyzing, isQuerying,
  query, error, recordingTime,
  mediaRecorderRef, audioChunksRef, recordingIntervalRef,
  sessions, analyzeCalls, askCalls, console

reactState == <<isRecording, audioFile, analysisResult, queryResult, isAnalyzing,
                isQuerying, query, error, recordingTime>>
refs == <<mediaRecorderRef, audioChunksRef, recordingIntervalRef>>
captureVars == <<isRecording, recordingTime, mediaRecorderRef, audioChunksRef,
                 recordingIntervalRef, sessions>>
vars == <<reactState, refs, sessions, analyzeCalls, askCalls, console>>

\* ------------------------------------------------------------------ strings
\* String.prototype.includes
Includes(s, sub) ==
  \/ sub = ""
  \/ \E i \in 1..(Len(s) - Len(sub) + 1) : SubSeq(s, i, i + Len(sub) - 1) = sub
\* String.prototype.endsWith
EndsWith(s, suf) ==
  Len(s) >= Len(suf) /\ SubSeq(s, Len(s) - Len(suf) + 1, Len(s)) = suf
\* String.prototype.trim on the blanks the inputs contain
RECURSIVE TrimLeft(_)
TrimLeft(s) ==
  IF Len(s) > 0 /\ SubSeq(s, 1, 1) = " " THEN TrimLeft(SubSeq(s, 2, Len(s))) ELSE s
RECURSIVE TrimRight(_)
TrimRight(s) ==
  IF Len(s) > 0 /\ SubSeq(s, Len(s), Len(s)) = " "
  THEN TrimRight(SubSeq(s, 1, Len(s) - 1)) ELSE s
Trim(s) == TrimRight(TrimLeft(s))

\* console.error(tag, err): the console shows the tags of the calls, the last
\* ConsoleLines of them
ConsoleError(log, tag) ==
  IF Len(log) < ConsoleLines THEN Append(log, tag)
  ELSE Append(SubSeq(log, 2, Len(log)), tag)

\* ------------------------------------------------------------------ Init
Init ==
  /\ isRecording = FALSE
  /\ audioFile = None
  /\ analysisResult = None
  /\ queryResult = None
  /\ isAnalyzing = FALSE
  /\ isQuerying = FALSE
  /\ query = ""
  /\ error = None
  /\ recordingTime = 0
  /\ mediaRecorderRef = 0
  /\ audioChunksRef = <<>>
  /\ recordingIntervalRef = 0
  /\ sessions = <<>>
  /\ analyzeCalls = <<>>
  /\ askCalls = <<>>
  /\ console = <<>>

\* ------------------------------------------------------------------ capture
\* One entry of sessions per startRecording invocation, in invocation order:
\*   pc     "await" while getUserMedia is pending, "done" afterwards
\*   stream "none" | "open" | "stopped"   the MediaStream getUserMedia returned
\*   rec    "none" | "inactive" | "recording" | "stopping"   its MediaRecorder
\*   timer  "none" | "active" | "cleared" the interval it created
\* Recorder i, stream i and timer i are those of invocation i; the refs hold
\* such an index, 0 for null.
StartOutcomes == {"denied", "ctorThrows", "startThrows", "ok"}
NewSession == [pc |-> "await", stream |-> "none", rec |-> "none", timer |-> "none"]

OpenStreams == { i \in 1..Len(sessions) : sessions[i].stream = "open" }
ActiveTimers == { i \in 1..Len(sessions) : sessions[i].timer = "active" }

\* clearInterval(id): stops that timer if it is running, nothing otherwise
ClearInterval(ss, id) ==
  IF id \in 1..Len(ss) /\ ss[id].timer = "active"
  THEN [ss EXCEPT ![id].timer = "cleared"] ELSE ss

\* startRecording up to its await: getUserMedia is called
startRecording ==
  /\ Len(sessions) < MaxStarts
  /\ sessions' = Append(sessions, NewSession)
  /\ UNCHANGED <<reactState, refs, analyzeCalls, askCalls, console>>

\* the catch block of startRecording
StartCatch ==
  /\ error' = Some(MicMsg)
  /\ console' = ConsoleError(console, "Recording error:")
  /\ UNCHANGED <<isRecording>>

\* startRecording from the await on, once getUserMedia has settled.
\* outcome: "denied"     getUserMedia rejected
\*          "ctorThrows" new MediaRecorder threw (mimeType not supported)
\*          "startThrows" mediaRecorder.start threw (tracks cannot be recorded)
\*          "ok"         every step succeeded
StartRecordingResume(i, outcome) ==
  /\ i \in 1..Len(sessions)
  /\ sessions[i].pc = "await"
  /\ CASE outcome = "denied" ->
            /\ sessions' = [sessions EXCEPT ![i].pc = "done"]
            /\ StartCatch
            /\ UNCHANGED <<refs, recordingTime>>
       [] outcome = "ctorThrows" ->
            /\ sessions' = [sessions EXCEPT ![i].pc = "done", ![i].stream = "open"]
            /\ StartCatch
            /\ UNCHANGED <<refs, recordingTime>>
       [] outcome = "startThrows" ->
            /\ sessions' = [sessions EXCEPT ![i].pc = "done", ![i].stream = "open",
                                            ![i].rec = "inactive"]
            /\ mediaRecorderRef' = i
            /\ audioChunksRef' = <<>>
            /\ recordingTime' = 0
            /\ StartCatch
            /\ UNCHANGED recordingIntervalRef
       [] outcome = "ok" ->
            /\ sessions' = [sessions EXCEPT ![i].pc = "done", ![i].stream = "open",
                                            ![i].rec = "recording",
                                            ![i].timer = "active"]
            /\ mediaRecorderRef' = i
            /\ audioChunksRef' = <<>>
            /\ recordingTime' = 0
            /\ isRecording' = TRUE
            /\ error' = None
            /\ recordingIntervalRef' = i
            /\ UNCHANGED console
  /\ UNCHANGED <<audioFile, analysisResult, queryResult, isAnalyzing, isQuerying,
                 query, analyzeCalls, askCalls>>

\* MediaRecorder.stop(): an inactive recorder ignores it; a recording one
\* becomes inactive at once and has its last dataavailable and its stop
\* event queued ("stopping" until they are dispatched)
RecorderStop(ss, r) ==
  IF ss[r].rec = "recording" THEN [ss EXCEPT ![r].rec = "stopping"] ELSE ss

stopRecording ==
  /\ IF mediaRecorderRef # 0 /\ isRecording
     THEN /\ sessions' = ClearInterval(RecorderStop(sessions, mediaRecorderRef),
                                       recordingIntervalRef)
          /\ isRecording' = FALSE
     ELSE UNCHANGED <<sessions, isRecording>>
  /\ UNCHANGED <<audioFile, analysisResult, queryResult, isAnalyzing, isQuerying,
                 query, error, recordingTime, refs, analyzeCalls, askCalls, console>>

\* mediaRecorder.ondataavailable of recorder i with a blob of the given size;
\* a chunk is written as the number of the recorder that delivered it
ondataavailable(i, size) ==
  IF size > 0
  THEN audioChunksRef' = Append(audioChunksRef, i)
  ELSE UNCHANGED audioChunksRef

\* the periodic dataavailable event of mediaRecorder.start(1000)
DataAvailable(i, size) ==
  /\ i \in 1..Len(sessions)
  /\ sessions[i].rec = "recording"
  /\ size > 0 => Len(audioChunksRef) < MaxChunks
  /\ ondataavailable(i, size)
  /\ UNCHANGED <<reactState, mediaRecorderRef, recordingIntervalRef, sessions,
                 analyzeCalls, askCalls, console>>

\* the File that onstop builds from the collected chunks
\* (the name carries Date.now() in the code; no two names are compared here)
RecordedFile(chunks) ==
  [name |-> "pollution-report.wav", type |-> "audio/wav", data |-> chunks]

\* mutant: a recording does not replace an asset that is already there
onstopKeepsAsset(i) ==
  /\ audioFile' = IF audioFile # None THEN audioFile
                  ELSE Some(RecordedFile(audioChunksRef'))
  /\ sessions' = ClearInterval([sessions EXCEPT ![i].stream = "stopped",
                                                ![i].rec = "inactive"],
                               recordingIntervalRef)
\* mediaRecorder.onstop of recorder i
onstop(i) ==
  /\ audioFile' = Some(RecordedFile(audioChunksRef'))
  /\ sessions' = ClearInterval([sessions EXCEPT ![i].stream = "stopped",
                                                ![i].rec = "inactive"],
                               recordingIntervalRef)

\* the task MediaRecorder.stop() queued: the last dataavailable, then stop
RecorderStopEvent(i, size) ==
  /\ i \in 1..Len(sessions)
  /\ sessions[i].rec = "stopping"
  /\ size > 0 => Len(audioChunksRef) < MaxChunks
  /\ ondataavailable(i, size)
  /\ onstop(i)
  /\ UNCHANGED <<isRecording, analysisResult, queryResult, isAnalyzing, isQuerying,
                 query, error, recordingTime, mediaRecorderRef, recordingIntervalRef,
                 analyzeCalls, askCalls, console>>

\* the setInterval callback of timer i
TimerTick(i) ==
  /\ i \in ActiveTimers
  /\ recordingTime < MaxTime
  /\ recordingTime' = recordingTime + 1
  /\ UNCHANGED <<isRecording, audioFile, analysisResult, queryResult, isAnalyzing,
                 isQuerying, query, error, refs, sessions, analyzeCalls,
                 askCalls, console>>

\* the record button: onClick={isRecording ? stopRecording : startRecording}
ClickStart == ~isRecording /\ startRecording
ClickStop == isRecording /\ stopRecording

\* ------------------------------------------------------------------ upload
\* mutant: a rejected selection empties the asset slot
handleFileUploadDropsAsset(files) ==
  /\ IF Len(files) > 0
     THEN IF Includes(files[1].type, "audio") \/ EndsWith(files[1].name, ".wav")
          THEN /\ audioFile' = Some(files[1])
               /\ error' = None
          ELSE /\ error' = Some(ValidationMsg)
               /\ audioFile' = None
     ELSE UNCHANGED <<audioFile, error>>
  /\ UNCHANGED <<isRecording, analysisResult, queryResult, isAnalyzing, isQuerying,
                 query, recordingTime, refs, sessions, analyzeCalls, askCalls, console>>
\* mutant: an accepted selection leaves the message on display
handleFileUploadKeepsError(files) ==
  /\ IF Len(files) > 0
     THEN IF Includes(files[1].type, "audio") \/ EndsWith(files[1].name, ".wav")
          THEN /\ audioFile' = Some(files[1])
               /\ UNCHANGED error
          ELSE /\ error' = Some(ValidationMsg)
               /\ UNCHANGED audioFile
     ELSE UNCHANGED <<audioFile, error>>
  /\ UNCHANGED <<isRecording, analysisResult, queryResult, isAnalyzing, isQuerying,
                 query, recordingTime, refs, sessions, analyzeCalls, askCalls, console>>
handleFileUpload(files) ==
  /\ IF Len(files) > 0
     THEN IF Includes(files[1].type, "audio") \/ EndsWith(files[1].name, ".wav")
          THEN /\ audioFile' = Some(files[1])
               /\ error' = None
          ELSE /\ error' = Some(ValidationMsg)
               /\ UNCHANGED audioFile
     ELSE UNCHANGED <<audioFile, error>>
  /\ UNCHANGED <<isRecording, analysisResult, queryResult, isAnalyzing, isQuerying,
                 query, recordingTime, refs, sessions, analyzeCalls, askCalls, console>>

SelectFile == \E files \in FileLists : handleFileUpload(files)

\* ------------------------------------------------------------------ HTTP
\* What the server can answer.  A response body either fails to parse as
\* JSON or parses to null or to an object; an object may carry a detail.
Statuses == {200, 404, 500}
ResponseOk(status) == status >= 200 /\ status <= 299
Unparseable == [parses |-> FALSE, value |-> None]
JsonNull == [parses |-> TRUE, value |-> None]
JsonObject(fields) == [parses |-> TRUE, value |-> Some(fields)]
Details == {"", "model unavailable"}
ErrorBodies ==
  {Unparseable, JsonNull, JsonObject([detail |-> None])}
    \cup { JsonObject([detail |-> Some(d)]) : d \in Details }
RowLists == { <<>>, <<[id |-> 1, pollution_type |-> "water"]>> }
\* the success bodies the server can send for one request
AnalyzeBodies(file) ==
  {Unparseable, JsonObject([detail |-> None, transcription |-> file.name,
                            audio |-> file.data, severity_level |-> None])}
AskBodies(q) ==
  {Unparseable}
    \cup { JsonObject([detail |-> None, query |-> q, result |-> rows]) :
             rows \in RowLists }

\* what can come back for a request whose success bodies are okBodies
Rejected == [rejected |-> TRUE, status |-> 0, body |-> Unparseable]
Replies(okBodies) ==
  {Rejected}
    \cup { [rejected |-> FALSE, status |-> st, body |-> b] :
             st \in {t \in Statuses : ~ResponseOk(t)}, b \in ErrorBodies }
    \cup { [rejected |-> FALSE, status |-> st, body |-> b] :
             st \in {t \in Statuses : ResponseOk(t)}, b \in okBodies }

FetchFailedMsg == "Failed to fetch"
JsonSyntaxMsg == "Unexpected token < in JSON at position 0"
NullDetailMsg == "Cannot read properties of null (reading 'detail')"

\* mutant: the detail of the body is not looked at
ThrownForStatusNoDetail(status, body) == "Server error: " \o ToString(status)
\* mutant: a body that is not JSON counts as an object without a detail
ErrorDataOfNoDefault(body) ==
  IF body.parses THEN body.value ELSE Some([detail |-> None])
\* The non-success branch of both orchestrators:
\*   const errorData = await response.json().catch(() => ({ detail: 'Unknown error' }));
\*   throw new Error(errorData.detail || `Server error: ${response.status}`);
\* as the message of the error that reaches the catch block.
ErrorDataOf(body) ==
  IF body.parses THEN body.value ELSE Some([detail |-> Some("Unknown error")])
ThrownForStatus(status, body) ==
  LET errorData == ErrorDataOf(body) IN
  IF errorData = None THEN NullDetailMsg
  ELSE IF errorData[1].detail # None /\ errorData[1].detail[1] # ""
       THEN errorData[1].detail[1]
       ELSE "Server error: " \o ToString(status)

\* mutant: a success response is taken as it comes, parsed or not
ThrownIgnoresParse(reply) ==
  IF reply.rejected THEN Some(FetchFailedMsg)
  ELSE IF ~ResponseOk(reply.status)
       THEN Some(ThrownForStatus(reply.status, reply.body))
       ELSE None
\* What the try block of an orchestrator throws for a reply, None when it
\* runs to its end: fetch rejecting, the non-success branch, or
\* response.json() rejecting on a success response.
Thrown(reply) ==
  IF reply.rejected THEN Some(FetchFailedMsg)
  ELSE IF ~ResponseOk(reply.status)
       THEN Some(ThrownForStatus(reply.status, reply.body))
       ELSE IF ~reply.body.parses THEN Some(JsonSyntaxMsg) ELSE None

\* ------------------------------------------------------------------ analyze
\* One entry of analyzeCalls per analyzeAudio invocation that has not
\* returned, in invocation order, holding the file its closure captured.
\* Entering the list is issuing the request.  The invocation is suspended at
\* fetch and then at response.json(); nothing of the component changes
\* between the two, so both settle in one step, with a Reply:
\*   rejected  fetch rejected (the request never completed)
\*   status    the status of the response
\*   body      what response.json() finds
RemoveAt(calls, k) == SubSeq(calls, 1, k - 1) \o SubSeq(calls, k + 1, Len(calls))

\* mutant: the request uploads what the chunk list holds at the moment
analyzeAudioSendsChunks ==
  /\ IF audioFile = None
     THEN UNCHANGED <<isAnalyzing, error, analysisResult, analyzeCalls>>
     ELSE /\ Len(analyzeCalls) < MaxInFlight
          /\ isAnalyzing' = TRUE
          /\ error' = None
          /\ analysisResult' = None
          /\ analyzeCalls' = Append(analyzeCalls, [file |-> RecordedFile(audioChunksRef)])
  /\ UNCHANGED <<isRecording, audioFile, queryResult, isQuerying, query,
                 recordingTime, refs, sessions, askCalls, console>>
\* analyzeAudio up to its await: the guard, the three setters, the request
analyzeAudio ==
  /\ IF audioFile = None
     THEN UNCHANGED <<isAnalyzing, error, analysisResult, analyzeCalls>>
     ELSE /\ Len(analyzeCalls) < MaxInFlight
          /\ isAnalyzing' = TRUE
          /\ error' = None
          /\ analysisResult' = None
          /\ analyzeCalls' = Append(analyzeCalls, [file |-> audioFile[1]])
  /\ UNCHANGED <<isRecording, audioFile, queryResult, isQuerying, query,
                 recordingTime, refs, sessions, askCalls, console>>

\* mutant: no finally block, the flag is reset on success only
AnalyzeCatchNoFinally(k, message) ==
  /\ error' = Some(message \o BackendHint)
  /\ console' = ConsoleError(console, "Analysis error:")
  /\ analyzeCalls' = RemoveAt(analyzeCalls, k)
  /\ UNCHANGED <<analysisResult, isAnalyzing>>
\* mutant: a failed request is sent again
AnalyzeCatchRetries(k, message) ==
  /\ error' = Some(message \o BackendHint)
  /\ console' = ConsoleError(console, "Analysis error:")
  /\ UNCHANGED <<isAnalyzing, analyzeCalls, analysisResult>>
\* mutant: a message that is already on display is kept
AnalyzeCatchKeepsFirst(k, message) ==
  /\ error' = IF error # None THEN error ELSE Some(message \o BackendHint)
  /\ console' = ConsoleError(console, "Analysis error:")
  /\ isAnalyzing' = FALSE
  /\ analyzeCalls' = RemoveAt(analyzeCalls, k)
  /\ UNCHANGED analysisResult
\* catch and finally of analyzeAudio, for an Error with the given message
AnalyzeCatch(k, message) ==
  /\ error' = Some(message \o BackendHint)
  /\ console' = ConsoleError(console, "Analysis error:")
  /\ isAnalyzing' = FALSE
  /\ analyzeCalls' = RemoveAt(analyzeCalls, k)
  /\ UNCHANGED analysisResult

\* mutant: a successful analysis clears the message on display
AnalyzeSettlesClearsError(k, reply) ==
  /\ k \in 1..Len(analyzeCalls)
  /\ IF Thrown(reply) # None
     THEN AnalyzeCatch(k, Thrown(reply)[1])
     ELSE /\ analysisResult' = reply.body.value
          /\ isAnalyzing' = FALSE
          /\ analyzeCalls' = RemoveAt(analyzeCalls, k)
          /\ error' = None
          /\ UNCHANGED console
  /\ UNCHANGED <<isRecording, audioFile, queryResult, isQuerying, query,
                 recordingTime, refs, sessions, askCalls>>
\* the try block of analyzeAudio after fetch, and what follows it
AnalyzeSettles(k, reply) ==
  /\ k \in 1..Len(analyzeCalls)
  /\ IF Thrown(reply) # None
     THEN AnalyzeCatch(k, Thrown(reply)[1])
     ELSE /\ analysisResult' = reply.body.value
          /\ isAnalyzing' = FALSE
          /\ analyzeCalls' = RemoveAt(analyzeCalls, k)
          /\ UNCHANGED <<error, console>>
  /\ UNCHANGED <<isRecording, audioFile, queryResult, isQuerying, query,
                 recordingTime, refs, sessions, askCalls>>

\* mutant: the button forgets the pending flag
AnalyzeDisabledNoPending == audioFile = None
\* the Analyze button: disabled={!audioFile || isAnalyzing}
AnalyzeDisabled == audioFile = None \/ isAnalyzing
ClickAnalyze == ~AnalyzeDisabled /\ analyzeAudio

\* ------------------------------------------------------------------ ask
\* askCalls is to askQuestion what analyzeCalls is to analyzeAudio; q is the
\* question text the closure captured.
\* mutant: the guard forgets to trim
askQuestionNoTrim ==
  /\ IF query = ""
     THEN UNCHANGED <<isQuerying, error, queryResult, askCalls>>
     ELSE /\ Len(askCalls) < MaxInFlight
          /\ isQuerying' = TRUE
          /\ error' = None
          /\ queryResult' = None
          /\ askCalls' = Append(askCalls, [q |-> query])
  /\ UNCHANGED <<isRecording, audioFile, analysisResult, isAnalyzing, query,
                 recordingTime, refs, sessions, analyzeCalls, console>>
\* mutant: an accepted question leaves the message on display
askQuestionKeepsError ==
  /\ IF Trim(query) = ""
     THEN UNCHANGED <<isQuerying, error, queryResult, askCalls>>
     ELSE /\ Len(askCalls) < MaxInFlight
          /\ isQuerying' = TRUE
          /\ queryResult' = None
          /\ askCalls' = Append(askCalls, [q |-> query])
          /\ UNCHANGED error
  /\ UNCHANGED <<isRecording, audioFile, analysisResult, isAnalyzing, query,
                 recordingTime, refs, sessions, analyzeCalls, console>>
askQuestion ==
  /\ IF Trim(query) = ""
     THEN UNCHANGED <<isQuerying, error, queryResult, askCalls>>
     ELSE /\ Len(askCalls) < MaxInFlight
          /\ isQuerying' = TRUE
          /\ error' = None
          /\ queryResult' = None
          /\ askCalls' = Append(askCalls, [q |-> query])
  /\ UNCHANGED <<isRecording, audioFile, analysisResult, isAnalyzing, query,
                 recordingTime, refs, sessions, analyzeCalls, console>>

\* mutant: no finally block, the flag is reset on success only
AskCatchNoFinally(k, message) ==
  /\ error' = Some(message \o BackendHint)
  /\ console' = ConsoleError(console, "Query error:")
  /\ askCalls' = RemoveAt(askCalls, k)
  /\ UNCHANGED <<queryResult, isQuerying>>
\* catch and finally of askQuestion
AskCatch(k, message) ==
  /\ error' = Some(message \o BackendHint)
  /\ console' = ConsoleError(console, "Query error:")
  /\ isQuerying' = FALSE
  /\ askCalls' = RemoveAt(askCalls, k)
  /\ UNCHANGED queryResult

\* mutant: a failed query empties the question box
AskSettlesClearsQuestion(k, reply) ==
  /\ k \in 1..Len(askCalls)
  /\ IF Thrown(reply) # None
     THEN AskCatch(k, Thrown(reply)[1]) /\ query' = ""
     ELSE /\ queryResult' = reply.body.value
          /\ isQuerying' = FALSE
          /\ askCalls' = RemoveAt(askCalls, k)
          /\ UNCHANGED <<error, console, query>>
  /\ UNCHANGED <<isRecording, audioFile, analysisResult, isAnalyzing,
                 recordingTime, refs, sessions, analyzeCalls>>
\* the try block of askQuestion after fetch, and what follows it
AskSettles(k, reply) ==
  /\ k \in 1..Len(askCalls)
  /\ IF Thrown(reply) # None
     THEN AskCatch(k, Thrown(reply)[1])
     ELSE /\ queryResult' = reply.body.value
          /\ isQuerying' = FALSE
          /\ askCalls' = RemoveAt(askCalls, k)
          /\ UNCHANGED <<error, console>>
  /\ UNCHANGED <<isRecording, audioFile, analysisResult, isAnalyzing, query,
                 recordingTime, refs, sessions, analyzeCalls>>

\* mutant: the button is also disabled while an analysis is pending
AskDisabledWhileAnalyzing == Trim(query) = "" \/ isQuerying \/ isAnalyzing
\* mutant: the button forgets the pending flag
AskDisabledNoPending == Trim(query) = ""
\* the Ask button: disabled={!query.trim() || isQuerying}
AskDisabled == Trim(query) = "" \/ isQuerying
ClickAsk == ~AskDisabled /\ askQuestion

\* the question textarea: onChange={(e) => setQuery(e.target.value)}
TypeQuery(text) ==
  /\ query' = text
  /\ UNCHANGED <<isRecording, audioFile, analysisResult, queryResult, isAnalyzing,
                 isQuerying, error, recordingTime, refs, sessions,
                 analyzeCalls, askCalls, console>>

\* mutant: a quick query button submits the question as well
ClickQuickQuerySubmits(k) ==
  /\ k \in 1..Len(quickQueries)
  /\ query' = quickQueries[k]
  /\ Len(askCalls) < MaxInFlight
  /\ isQuerying' = TRUE
  /\ error' = None
  /\ queryResult' = None
  /\ askCalls' = Append(askCalls, [q |-> quickQueries[k]])
  /\ UNCHANGED <<isRecording, audioFile, analysisResult, isAnalyzing,
                 recordingTime, refs, sessions, analyzeCalls, console>>
\* a quick query button: onClick={() => setQuery(quickQuery)}
ClickQuickQuery(k) == k \in 1..Len(quickQueries) /\ TypeQuery(quickQueries[k])

\* ------------------------------------------------------------------ clear
\* mutant: clearing also zeroes the elapsed-time counter
clearResultsResetsTime ==
  /\ analysisResult' = None
  /\ queryResult' = None
  /\ error' = None
  /\ audioFile' = None
  /\ query' = ""
  /\ recordingTime' = 0
  /\ UNCHANGED <<isRecording, isAnalyzing, isQuerying, refs,
                 sessions, analyzeCalls, askCalls, console>>
\* mutant: clearing abandons the requests that are pending
clearResultsCancels ==
  /\ analysisResult' = None
  /\ queryResult' = None
  /\ error' = None
  /\ audioFile' = None
  /\ query' = ""
  /\ isAnalyzing' = FALSE
  /\ isQuerying' = FALSE
  /\ analyzeCalls' = <<>>
  /\ askCalls' = <<>>
  /\ UNCHANGED <<isRecording, recordingTime, refs, sessions, console>>
\* clearResults
clearResults ==
  /\ analysisResult' = None
  /\ queryResult' = None
  /\ error' = None
  /\ audioFile' = None
  /\ query' = ""
  /\ UNCHANGED <<isRecording, isAnalyzing, isQuerying, recordingTime, refs,
                 sessions, analyzeCalls, askCalls, console>>

\* mutant: the button is also rendered for a message or an asset
ClearOfferedForAnything ==
  analysisResult # None \/ queryResult # None \/ error # None \/ audioFile # None
\* the Clear Results button is rendered only with a result on display
ClearOffered == analysisResult # None \/ queryResult # None
ClickClear == ClearOffered /\ clearResults

\* The handlers run where the interface has their buttons disabled for want
\* of an input (no event of the page does this; it is the call the guards at
\* lines 121 and 153 are written for).
AnalyzeWithoutAsset == audioFile = None /\ analyzeAudio
AskWithoutQuestion == Trim(query) = "" /\ askQuestion

\* the network settles a pending request
AnalyzeReplyArrives ==
  \E k \in 1..MaxInFlight :
    /\ k <= Len(analyzeCalls)
    /\ \E reply \in Replies(AnalyzeBodies(analyzeCalls[k].file)) : AnalyzeSettles(k, reply)
AskReplyArrives ==
  \E k \in 1..MaxInFlight :
    /\ k <= Len(askCalls)
    /\ \E reply \in Replies(AskBodies(askCalls[k].q)) : AskSettles(k, reply)

Next ==
  \/ ClickStart
  \/ ClickStop
  \/ \E i \in 1..MaxStarts, o \in StartOutcomes : StartRecordingResume(i, o)
  \/ \E i \in 1..MaxStarts, size \in {0, 1} : DataAvailable(i, size)
  \/ \E i \in 1..MaxStarts, size \in {0, 1} : RecorderStopEvent(i, size)
  \/ \E i \in 1..MaxStarts : TimerTick(i)
  \/ SelectFile
  \/ ClickAnalyze
  \/ AnalyzeWithoutAsset
  \/ AnalyzeReplyArrives
  \/ ClickAsk
  \/ AskWithoutQuestion
  \/ AskReplyArrives
  \/ \E text \in QueryInputs : TypeQuery(text)
  \/ \E k \in 1..MaxQuick : ClickQuickQuery(k)
  \/ ClickClear

Spec == Init /\ [][Next]_vars
\* Every request settles: fetch resolves or rejects (the transport times a
\* silent connection out) and the body of a response is read to its end.
\* FairSpec is Spec with that fairness, and with one capture session: the
\* orchestrators read nothing of a capture session but the asset it leaves,
\* and what a reply does to the component is stated under FairSpec.
ClickStartOnce == sessions = <<>> /\ ClickStart

FairNext ==
  \/ ClickStartOnce
  \/ ClickStop
  \/ \E i \in 1..MaxStarts, o \in StartOutcomes : StartRecordingResume(i, o)
  \/ \E i \in 1..MaxStarts, size \in {0, 1} : DataAvailable(i, size)
  \/ \E i \in 1..MaxStarts, size \in {0, 1} : RecorderStopEvent(i, size)
  \/ \E i \in 1..MaxStarts : TimerTick(i)
  \/ SelectFile
  \/ ClickAnalyze
  \/ AnalyzeWithoutAsset
  \/ AnalyzeReplyArrives
  \/ ClickAsk
  \/ AskWithoutQuestion
  \/ AskReplyArrives
  \/ \E text \in QueryInputs : TypeQuery(text)
  \/ \E k \in 1..MaxQuick : ClickQuickQuery(k)
  \/ ClickClear

FairSpec ==
  /\ Init
  /\ [][FairNext]_vars
  /\ WF_vars(AnalyzeReplyArrives)
  /\ WF_vars(AskReplyArrives)

\* ------------------------------------------------------------------ display
\* What the component renders of a result is a function of its state.
\* String.prototype.toLowerCase on the letters A to Z
UpperLetters == "ABCDEFGHIJKLMNOPQRSTUVWXYZ"
LowerLetters == "abcdefghijklmnopqrstuvwxyz"
RECURSIVE toLowerCase(_)
toLowerCase(s) ==
  IF Len(s) = 0 THEN ""
  ELSE LET c == SubSeq(s, 1, 1)
           hits == {i \in 1..Len(UpperLetters) : SubSeq(UpperLetters, i, i) = c}
           lower == IF hits = {} THEN c
                    ELSE LET i == CHOOSE j \in hits : TRUE IN SubSeq(LowerLetters, i, i)
       IN lower \o toLowerCase(SubSeq(s, 2, Len(s)))

\* mutant: the label is compared as it was sent
getSeverityColorAsSent(severity) ==
  LET tier == severity IN
  IF tier = Some("low") THEN "text-green-700 bg-green-100 border-green-300"
  ELSE IF tier = Some("medium") THEN "text-yellow-700 bg-yellow-100 border-yellow-300"
  ELSE IF tier = Some("high") THEN "text-orange-700 bg-orange-100 border-orange-300"
  ELSE IF tier = Some("critical") THEN "text-red-700 bg-red-100 border-red-300"
  ELSE "text-gray-700 bg-gray-100 border-gray-300"
\* switch (severity?.toLowerCase()): of an absent label the optional chain
\* yields undefined, which no case matches
getSeverityColor(severity) ==
  LET tier == IF severity = None THEN None ELSE Some(toLowerCase(severity[1])) IN
  IF tier = Some("low") THEN "text-green-700 bg-green-100 border-green-300"
  ELSE IF tier = Some("medium") THEN "text-yellow-700 bg-yellow-100 border-yellow-300"
  ELSE IF tier = Some("high") THEN "text-orange-700 bg-orange-100 border-orange-300"
  ELSE IF tier = Some("critical") THEN "text-red-700 bg-red-100 border-red-300"
  ELSE "text-gray-700 bg-gray-100 border-gray-300"

\* {analysisResult.severity_level && (<div className={...getSeverityColor(...)}>)}:
\* the classes of the severity badge, None when no badge is rendered
SeverityBadge(result) ==
  IF result.severity_level = None \/ result.severity_level[1] = "" THEN None
  ELSE Some(getSeverityColor(result.severity_level))

\* Array.prototype.slice(start, end) with 0 <= start <= end
Slice(seq, start, end) ==
  SubSeq(seq, start + 1, IF end < Len(seq) THEN end ELSE Len(seq))
\* key.replace(/_/g, ' ')
RECURSIVE ReplaceUnderscores(_)
ReplaceUnderscores(s) ==
  IF Len(s) = 0 THEN ""
  ELSE (IF SubSeq(s, 1, 1) = "_" THEN " " ELSE SubSeq(s, 1, 1))
         \o ReplaceUnderscores(SubSeq(s, 2, Len(s)))

\* mutant: the table is rendered for every row list
TableShownAlways(result) == Len(result) >= 0
\* queryResult.result.length > 0 ? table : empty state
TableShown(result) == Len(result) > 0
\* Object.keys(queryResult.result[0]).map(key => key.replace(/_/g, ' ')):
\* the header texts, None for the TypeError Object.keys throws when there
\* is no row 0
ColumnHeaders(result) ==
  IF Len(result) = 0 THEN None
  ELSE Some({ ReplaceUnderscores(key) : key \in DOMAIN result[1] })
\* queryResult.result.slice(0, 10).map(row => <tr>): the rows of the body
RenderedRows(result) == Slice(result, 0, PageRows)
\* mutant: the note is shown from the tenth row on
FooterShownFromTen(result) == Len(result) >= PageRows
\* {queryResult.result.length > 10 && (<div>Showing first 10 of ...</div>)}
FooterShown(result) == Len(result) > PageRows
FooterText(result) ==
  "Showing first 10 of " \o ToString(Len(result)) \o " results"
EmptyStateText == "No results found"

\* The results block of a query result.  reads is the set of indices of
\* queryResult.result the render reads, counted from 0 as the code does.
TableView(result) ==
  IF TableShown(result)
  THEN IF ColumnHeaders(result) = None
       THEN [kind |-> "TypeError", reads |-> {0}, headers |-> {}, rows |-> <<>>,
             footer |-> None, text |-> None]
       ELSE [kind |-> "table",
             reads |-> {0} \cup {j - 1 : j \in 1..Len(RenderedRows(result))},
             headers |-> ColumnHeaders(result)[1],
             rows |-> RenderedRows(result),
             footer |-> IF FooterShown(result) THEN Some(FooterText(result)) ELSE None,
             text |-> None]
  ELSE [kind |-> "empty", reads |-> {}, headers |-> {}, rows |-> <<>>,
        footer |-> None, text |-> Some(EmptyStateText)]

\* The server answers with the reports the display distinguishes: row lists
\* around the page length, severity labels in several spellings.
WideRowLists ==
  { [n \in 1..N |-> [id |-> n, pollution_type |-> "water"]] : N \in 0..MaxRows }
SeverityLabels ==
  { "low", "Low", "LOW", "medium", "Medium", "MEDIUM", "high", "High", "HIGH",
    "critical", "Critical", "CRITICAL", "", "unknown", "lower" }
SeverityLevels == {None} \cup { Some(label) : label \in SeverityLabels }
ReportBodies(file) ==
  { JsonObject([detail |-> None, transcription |-> file.name, audio |-> file.data,
                severity_level |-> level]) : level \in SeverityLevels }
RowBodies(q) ==
  { JsonObject([detail |-> None, query |-> q, result |-> rows]) : rows \in WideRowLists }
AnalyzeReportArrives ==
  \E k \in 1..MaxInFlight :
    /\ k <= Len(analyzeCalls)
    /\ \E reply \in Replies(ReportBodies(analyzeCalls[k].file)) : AnalyzeSettles(k, reply)
AskRowsArrive ==
  \E k \in 1..MaxInFlight :
    /\ k <= Len(askCalls)
    /\ \E reply \in Replies(RowBodies(askCalls[k].q)) : AskSettles(k, reply)

\* RenderSpec: the component without the capture code, with these answers
RenderNext ==
  \/ SelectFile
  \/ ClickAnalyze
  \/ AnalyzeReportArrives
  \/ ClickAsk
  \/ AskRowsArrive
  \/ \E text \in QueryInputs : TypeQuery(text)
  \/ \E k \in 1..MaxQuick : ClickQuickQuery(k)
  \/ ClickClear

RenderSpec == Init /\ [][RenderNext]_vars

\* ================================================================== claims
\* steps of the capture code, read off a pair of states
\* the stop event of some recorder is handled in this step
StopHandled ==
  \E i \in 1..Len(sessions) :
    sessions[i].rec = "stopping" /\ sessions'[i].rec = "inactive"
\* code of startRecording runs in this step: it is called, or it resumes
StartRuns ==
  \/ Len(sessions') > Len(sessions)
  \/ \E i \in 1..Len(sessions) : sessions[i].pc = "await" /\ sessions'[i].pc = "done"
\* some recorder is told to stop in this step
StopTakesEffect ==
  \E i \in 1..Len(sessions) :
    sessions[i].rec = "recording" /\ sessions'[i].rec = "stopping"

\* C1: at most one hardware audio stream is open at any time, and when the
\* stop event of a recorder has been handled no stream is open.
C1_OneStreamOpen ==
  /\ [](Cardinality(OpenStreams) <= 1)
  /\ [][StopHandled => OpenStreams' = {}]_vars

\* C2: startRecording while already recording and stopRecording while not
\* recording are no-ops: the recording flag, the chunk list, the elapsed-time
\* counter, the timer handle and the recorder handle are unchanged, no
\* recorder is stopped and no stream is acquired.
C2_NoOps ==
  [][ /\ (isRecording /\ StartRuns) =>
           /\ UNCHANGED <<isRecording, audioChunksRef, recordingTime,
                          recordingIntervalRef, mediaRecorderRef>>
           /\ OpenStreams' \subseteq OpenStreams
      /\ ~isRecording => ~StopTakesEffect ]_vars

\* C3: while an analysis request is pending no further request to the
\* analyze endpoint is issued, and at most one is in flight.
C3_OneAnalysisInFlight ==
  /\ [](Len(analyzeCalls) <= 1)
  /\ [][Len(analyzeCalls) >= 1 => Len(analyzeCalls') <= Len(analyzeCalls)]_vars
\* an analysis is pending with an asset at hand: only the pending flag keeps
\* the Analyze button from running analyzeAudio again
C3_Witness ==
  /\ Len(analyzeCalls) = 1
  /\ audioFile # None
  /\ AnalyzeDisabled

\* C4: while a query request is pending no further request to the ask
\* endpoint is issued, and at most one is in flight.
C4_OneQueryInFlight ==
  /\ [](Len(askCalls) <= 1)
  /\ [][Len(askCalls) >= 1 => Len(askCalls') <= Len(askCalls)]_vars
C4_Witness ==
  /\ Len(askCalls) = 1
  /\ Trim(query) # ""
  /\ AskDisabled

\* C5: each pending flag is true exactly while a request of its orchestrator
\* has been issued and has not completed.
C5_PendingFlags ==
  /\ isAnalyzing <=> Len(analyzeCalls) > 0
  /\ isQuerying <=> Len(askCalls) > 0
\* a query has come and gone while an analysis is still in flight
C5_Witness ==
  /\ isAnalyzing
  /\ ~isQuerying
  /\ queryResult # None

\* replies of the server, for the statements about them
ErrorStatuses == { st \in Statuses : ~ResponseOk(st) }
ErrorReply(st, body) == [rejected |-> FALSE, status |-> st, body |-> body]
LastLine(tag) == console # <<>> /\ console[Len(console)] = tag

\* C6: when the analyze endpoint answers with a non-success status and a body
\* carrying a detail string, the analysis ends with ErrorState containing that
\* detail, AnalysisResult absent and the pending flag false.
C6_DetailSurfaced ==
  [][ analyzeCalls' # analyzeCalls =>
        \A k \in 1..Len(analyzeCalls), st \in ErrorStatuses, d \in Details :
          AnalyzeSettles(k, ErrorReply(st, JsonObject([detail |-> Some(d)]))) =>
            /\ error' # None
            /\ Includes(error'[1], d)
            /\ analysisResult' = None
            /\ ~isAnalyzing' ]_vars
\* the analysis was the last request to fail and its message is the detail
C6_Witness ==
  /\ LastLine("Analysis error:")
  /\ error = Some("model unavailable" \o BackendHint)
  /\ analysisResult = None
  /\ ~isAnalyzing

\* C7 as stated: a non-success answer of either endpoint whose body is no
\* structured error (not JSON, or JSON without a detail) yields the generic
\* "Server error: <status>" message followed by the backend hint.
GenericMsg(st) == Some(("Server error: " \o ToString(st)) \o BackendHint)
C7_GenericForUnparsed ==
  [][ \A st \in ErrorStatuses, body \in {Unparseable, JsonObject([detail |-> None])} :
        /\ analyzeCalls' # analyzeCalls => \A k \in 1..Len(analyzeCalls) :
             AnalyzeSettles(k, ErrorReply(st, body)) => error' = GenericMsg(st)
        /\ askCalls' # askCalls => \A k \in 1..Len(askCalls) :
             AskSettles(k, ErrorReply(st, body)) => error' = GenericMsg(st) ]_vars
\* C7 amended: the generic message is that of a body that is a JSON object
\* without a non-empty detail; a body that is not JSON yields "Unknown error".
\* Both are followed by the backend hint.
ExpectedMsg(st, body) ==
  IF body = Unparseable THEN Some("Unknown error" \o BackendHint) ELSE GenericMsg(st)
C7_GenericForNoDetail ==
  [][ \A st \in ErrorStatuses,
         body \in {Unparseable, JsonObject([detail |-> None]),
                   JsonObject([detail |-> Some("")])} :
        /\ analyzeCalls' # analyzeCalls => \A k \in 1..Len(analyzeCalls) :
             AnalyzeSettles(k, ErrorReply(st, body)) => error' = ExpectedMsg(st, body)
        /\ askCalls' # askCalls => \A k \in 1..Len(askCalls) :
             AskSettles(k, ErrorReply(st, body)) => error' = ExpectedMsg(st, body) ]_vars
\* a query was the last request to fail, with the message of a body that is
\* not JSON
C7_Witness ==
  /\ LastLine("Query error:")
  /\ error = Some("Unknown error" \o BackendHint)
  /\ ~isQuerying

\* every reply the network can deliver to a pending request
AnalyzeReplies(k) == Replies(AnalyzeBodies(analyzeCalls[k].file))
AskReplies(k) == Replies(AskBodies(askCalls[k].q))

\* C8: every invocation of analyzeAudio or askQuestion that issues a request
\* eventually finishes with its pending flag false, whatever the outcome, and
\* every failure ends in the catch block: the invocation returns with the
\* flag false and ErrorState holding a message.
C8_RequestsFinish ==
  /\ Len(analyzeCalls) > 0 ~> (analyzeCalls = <<>> /\ ~isAnalyzing)
  /\ Len(askCalls) > 0 ~> (askCalls = <<>> /\ ~isQuerying)
  /\ [][ /\ analyzeCalls' # analyzeCalls =>
              \A k \in 1..Len(analyzeCalls) : \A reply \in AnalyzeReplies(k) :
                (Thrown(reply) # None /\ AnalyzeSettles(k, reply)) =>
                  error' # None /\ ~isAnalyzing' /\ Len(analyzeCalls') < Len(analyzeCalls)
         /\ askCalls' # askCalls =>
              \A k \in 1..Len(askCalls) : \A reply \in AskReplies(k) :
                (Thrown(reply) # None /\ AskSettles(k, reply)) =>
                  error' # None /\ ~isQuerying' /\ Len(askCalls') < Len(askCalls) ]_vars
\* a request that never completed has been reported and nothing is pending
C8_Witness ==
  /\ LastLine("Query error:")
  /\ error = Some(FetchFailedMsg \o BackendHint)
  /\ askCalls = <<>>
  /\ ~isQuerying

\* C9: ErrorState holds at most one message and the last writer wins: a
\* request that fails leaves its own message there, whatever was there before.
C9_LastWriterWins ==
  /\ [](Len(error) <= 1)
  /\ [][ /\ analyzeCalls' # analyzeCalls =>
              \A k \in 1..Len(analyzeCalls) : \A reply \in AnalyzeReplies(k) :
                (Thrown(reply) # None /\ AnalyzeSettles(k, reply)) =>
                  error' = Some(Thrown(reply)[1] \o BackendHint)
         /\ askCalls' # askCalls =>
              \A k \in 1..Len(askCalls) : \A reply \in AskReplies(k) :
                (Thrown(reply) # None /\ AskSettles(k, reply)) =>
                  error' = Some(Thrown(reply)[1] \o BackendHint) ]_vars
\* a query failed and then an analysis failed, both have completed, and the
\* message on display is that of the analysis
C9_Witness ==
  /\ console = <<"Query error:", "Analysis error:">>
  /\ analyzeCalls = <<>>
  /\ askCalls = <<>>
  /\ error = Some(JsonSyntaxMsg \o BackendHint)
  /\ queryResult = None

\* C10: exactly one asset is current; when the stop event of a recorder has
\* been handled it is the file built from the recorded chunks, whatever asset
\* was current before, and an accepted upload makes the uploaded file the
\* current asset: the later of the two wins, nothing is merged.
C10_LastAssetWins ==
  /\ [](Len(audioFile) <= 1)
  /\ [][ /\ StopHandled => audioFile' = Some(RecordedFile(audioChunksRef'))
         /\ audioFile' # audioFile =>
              \A f \in UploadFiles :
                (EndsWith(f.name, ".wav") /\ handleFileUpload(<<f>>)) =>
                  audioFile' = Some(f) ]_vars
\* the uploaded file was current (it has been analyzed) and the recording
\* that completed afterwards has taken its place
C10_Witness ==
  /\ analysisResult # None
  /\ analysisResult[1].transcription = "report.wav"
  /\ audioFile = Some(RecordedFile(<<1>>))

\* C11: clearResults empties AnalysisResult, QueryResult, ErrorState, the
\* current asset and the question text in one step and leaves the capture
\* session as it was: flag, recorder handle, chunks, counter, timer, streams.
C11_ClearKeepsCapture ==
  [][ clearResults =>
        /\ analysisResult' = None /\ queryResult' = None /\ error' = None
        /\ audioFile' = None /\ query' = ""
        /\ UNCHANGED captureVars
        /\ ActiveTimers' = ActiveTimers /\ OpenStreams' = OpenStreams ]_vars
\* everything has been cleared (an asset was there: its analysis failed, and
\* only clearResults removes an asset) while a recording goes on
C11_Witness ==
  /\ audioFile = None /\ analysisResult = None /\ queryResult = None
  /\ error = None /\ query = ""
  /\ \E n \in 1..Len(console) : console[n] = "Analysis error:"
  /\ isRecording /\ ActiveTimers # {} /\ audioChunksRef # <<>> /\ recordingTime > 0

\* C12: handleFileUpload accepts a file if and only if its declared type
\* indicates audio or its name ends in .wav, .mp3 or .m4a.
AudioExtensions == {".wav", ".mp3", ".m4a"}
RecognizedAudio(f) ==
  Includes(f.type, "audio") \/ \E ext \in AudioExtensions : EndsWith(f.name, ext)
C12_AcceptIff ==
  [][ \A f \in UploadFiles :
        handleFileUpload(<<f>>) => (RecognizedAudio(f) <=> audioFile' = Some(f)) ]_vars

\* the files of UploadFiles that line 111 lets through
Accepted(f) == Includes(f.type, "audio") \/ EndsWith(f.name, ".wav")

\* C13: when handleFileUpload rejects a file the current asset is what it was
\* before, ErrorState is the validation message and nothing else changes.
C13_RejectionKeepsAsset ==
  [][ \A f \in UploadFiles :
        (~Accepted(f) /\ handleFileUpload(<<f>>)) =>
          /\ audioFile' = audioFile
          /\ error' = Some(ValidationMsg)
          /\ UNCHANGED <<isRecording, analysisResult, queryResult, isAnalyzing,
                         isQuerying, query, recordingTime, refs, sessions,
                         analyzeCalls, askCalls, console>> ]_vars
\* a file was rejected while the recorded asset was being analyzed (the
\* analysis had cleared ErrorState), and the recorded asset is still current
C13_Witness ==
  /\ error = Some(ValidationMsg)
  /\ isAnalyzing
  /\ audioFile = Some(RecordedFile(<<1>>))

\* C14: when handleFileUpload accepts a file, the file becomes the current
\* asset whatever the asset was, and ErrorState is cleared whatever set it.
C14_AcceptanceReplaces ==
  [][ \A f \in UploadFiles :
        (Accepted(f) /\ handleFileUpload(<<f>>)) =>
          audioFile' = Some(f) /\ error' = None ]_vars
\* a query failed, nothing has been asked, analyzed or recorded since, and
\* the uploaded file is current with no message on display
C14_Witness ==
  /\ LastLine("Query error:")
  /\ error = None
  /\ audioFile \in { Some(f) : f \in UploadFiles }
  /\ queryResult = None /\ analysisResult = None
  /\ ~isQuerying /\ ~isAnalyzing /\ sessions = <<>>

\* C15: an analyzeAudio invocation that finds an asset sets the pending flag,
\* clears ErrorState and AnalysisResult and issues one request, for the
\* current asset; nothing else issues a request: any other change of the
\* requests in flight is one of them ending, and once a failure has been
\* reported its request is no longer in flight (no automatic retry).
C15_OneRequestPerInvocation ==
  /\ [][ /\ (audioFile # None /\ analyzeAudio) =>
               /\ isAnalyzing' /\ error' = None /\ analysisResult' = None
               /\ analyzeCalls' = Append(analyzeCalls, [file |-> audioFile[1]])
         /\ analyzeCalls' # analyzeCalls =>
               \/ audioFile # None /\ analyzeAudio
               \/ Len(analyzeCalls') = Len(analyzeCalls) - 1 ]_vars
  /\ []( (LastLine("Analysis error:") /\ error # None
            /\ error \notin {Some(MicMsg), Some(ValidationMsg)})
          => analyzeCalls = <<>> )
\* an analysis has failed, its message is on display, the asset is still
\* there and nothing is in flight
C15_Witness ==
  /\ LastLine("Analysis error:")
  /\ error = Some(("Server error: " \o ToString(500)) \o BackendHint)
  /\ audioFile # None
  /\ analyzeCalls = <<>>

\* C16 as stated: when an analysis request completes successfully,
\* AnalysisResult holds the response, the pending flag is false and
\* ErrorState is null at that moment, in every interleaving.
C16_SuccessWithClearError ==
  [][ analyzeCalls' # analyzeCalls =>
        \A k \in 1..Len(analyzeCalls) : \A reply \in AnalyzeReplies(k) :
          (Thrown(reply) = None /\ AnalyzeSettles(k, reply)) =>
            /\ analysisResult' = reply.body.value
            /\ ~isAnalyzing'
            /\ error' = None ]_vars
\* C16 amended: on success AnalysisResult holds the response, the pending
\* flag is false and ErrorState is left as it was: the success path does not
\* write it, so a message set since the invocation began stays on display.
C16_SuccessLeavesError ==
  [][ analyzeCalls' # analyzeCalls =>
        \A k \in 1..Len(analyzeCalls) : \A reply \in AnalyzeReplies(k) :
          (Thrown(reply) = None /\ AnalyzeSettles(k, reply)) =>
            /\ analysisResult' = reply.body.value
            /\ analysisResult' # None
            /\ ~isAnalyzing'
            /\ error' = error ]_vars
\* the analysis of the uploaded file has succeeded and the message of a
\* query that failed is on display
C16_Witness ==
  /\ analysisResult # None
  /\ ~isAnalyzing
  /\ LastLine("Query error:")
  /\ error = Some(FetchFailedMsg \o BackendHint)

\* C17: a failed analysis leaves the current asset unchanged and
\* AnalysisResult absent; a failed query leaves the question text unchanged
\* and QueryResult absent.
C17_FailureKeepsInput ==
  [][ /\ analyzeCalls' # analyzeCalls =>
          \A k \in 1..Len(analyzeCalls) : \A reply \in AnalyzeReplies(k) :
            (Thrown(reply) # None /\ AnalyzeSettles(k, reply)) =>
              audioFile' = audioFile /\ analysisResult' = None
      /\ askCalls' # askCalls =>
          \A k \in 1..Len(askCalls) : \A reply \in AskReplies(k) :
            (Thrown(reply) # None /\ AskSettles(k, reply)) =>
              query' = query /\ queryResult' = None ]_vars
\* a query has failed; its question is still in the box and can be asked again
C17_Witness ==
  /\ LastLine("Query error:")
  /\ error = Some(("Server error: " \o ToString(404)) \o BackendHint)
  /\ query = quickQueries[1]
  /\ queryResult = None
  /\ ~AskDisabled

\* C18: analyzeAudio with no current asset, and askQuestion with a question
\* that is empty once trimmed, do nothing: no request is issued and the
\* pending flags, ErrorState, AnalysisResult and QueryResult are unchanged.
C18_GuardsReturn ==
  [][ ((audioFile = None /\ analyzeAudio) \/ (Trim(query) = "" /\ askQuestion)) =>
        UNCHANGED <<analyzeCalls, askCalls, isAnalyzing, isQuerying, error,
                    analysisResult, queryResult>> ]_vars
\* no asset and a blank question, with a result and a message on display
\* for the two calls to leave alone
C18_Witness ==
  /\ audioFile = None
  /\ query = " "
  /\ queryResult # None
  /\ error = Some(ValidationMsg)
  /\ analyzeCalls = <<>> /\ askCalls = <<>>
  /\ ENABLED AnalyzeWithoutAsset /\ ENABLED AskWithoutQuestion

\* C19: when startRecording fails to reach the Recording state, the recording
\* flag is unchanged, ErrorState is the microphone message and no partial
\* state is created: no stream is left open, no recorder handle is stored, no
\* timer is started, the chunk list and the elapsed-time counter are unchanged.
FailedOutcomes == StartOutcomes \ {"ok"}
C19_FailedStartLeavesNothing ==
  [][ \A i \in 1..Len(sessions), o \in FailedOutcomes :
        StartRecordingResume(i, o) =>
          /\ isRecording' = isRecording
          /\ error' = Some(MicMsg)
          /\ OpenStreams' = OpenStreams
          /\ ActiveTimers' = ActiveTimers
          /\ UNCHANGED <<mediaRecorderRef, audioChunksRef, recordingTime>> ]_vars

\* C20: the stream of a capture session that has ended is released: a session
\* whose startRecording has returned and whose recorder does not exist or is
\* inactive holds no open stream.
SessionEnded(i) == sessions[i].pc = "done" /\ sessions[i].rec \in {"none", "inactive"}
C20_EndedSessionsReleased ==
  \A i \in 1..Len(sessions) : SessionEnded(i) => sessions[i].stream # "open"

\* C21: the elapsed-time counter is reset to 0 when a capture session starts
\* and otherwise changes only by growing by 1 while recording: it never
\* decreases while recording and does not change once recording has stopped.
SessionStarts == ~isRecording /\ isRecording'
C21_CounterSteps ==
  [][ /\ SessionStarts => recordingTime' = 0
      /\ recordingTime' # recordingTime =>
            \/ SessionStarts
            \/ isRecording /\ isRecording' /\ recordingTime' = recordingTime + 1 ]_vars

\* C22: the two orchestrators are independent apart from ErrorState: no step
\* of the analysis changes QueryResult, the query flag or the queries in
\* flight, no step of a query changes AnalysisResult, the asset, the analysis
\* flag or the analyses in flight, and a pending request of one does not
\* keep the other from being issued.
C22_Independent ==
  /\ [][ /\ analyzeCalls' # analyzeCalls =>
              UNCHANGED <<queryResult, isQuerying, askCalls, query>>
         /\ askCalls' # askCalls =>
              UNCHANGED <<analysisResult, audioFile, isAnalyzing, analyzeCalls>> ]_vars
  /\ []( /\ (isAnalyzing /\ ~isQuerying /\ Trim(query) # "") => ENABLED ClickAsk
         /\ (isQuerying /\ ~isAnalyzing /\ audioFile # None) => ENABLED ClickAnalyze )
\* a query was issued while an analysis was pending: both are in flight
C22_Witness ==
  /\ isAnalyzing /\ isQuerying
  /\ Len(analyzeCalls) = 1 /\ Len(askCalls) = 1

\* C23: a quick query button only sets the question text to its example: no
\* request is issued and nothing else changes.
C23_QuickQueryOnlyFills ==
  [][ \A k \in 1..Len(quickQueries) :
        ClickQuickQuery(k) =>
          /\ query' = quickQueries[k]
          /\ UNCHANGED <<askCalls, analyzeCalls, isQuerying, isAnalyzing,
                         queryResult, analysisResult, error, audioFile, console,
                         captureVars>> ]_vars
\* an example is in the question box, a message is on display and no query
\* has been sent
C23_Witness ==
  /\ query = quickQueries[1]
  /\ error = Some(ValidationMsg)
  /\ askCalls = <<>> /\ ~isQuerying /\ queryResult = None
  /\ \A n \in 1..Len(console) : console[n] # "Query error:"

\* the results block of the query result on display
QueryRows == queryResult[1].result
ShownRows == IF Len(QueryRows) < PageRows THEN Len(QueryRows) ELSE PageRows
RowsInOrder ==
  /\ Len(TableView(QueryRows).rows) = ShownRows
  /\ \A j \in 1..ShownRows : TableView(QueryRows).rows[j] = QueryRows[j]

\* C24 as stated: of a query result with N rows the first min(N, 10) are
\* rendered in received order; when N > 10 a footer states how many more
\* rows exist (N - 10 more), and when N <= 10 there is no footer.
C24_FooterCountsRest ==
  queryResult # None =>
    /\ RowsInOrder
    /\ Len(QueryRows) > PageRows =>
         /\ TableView(QueryRows).footer # None
         /\ Includes(TableView(QueryRows).footer[1],
                     ToString(Len(QueryRows) - PageRows) \o " more")
    /\ Len(QueryRows) <= PageRows => TableView(QueryRows).footer = None

\* C24, amended: of a query result with N rows the first min(N, 10) are
\* rendered in received order; when N > 10 a footer states the total,
\* "Showing first 10 of N results", and when N <= 10 there is no footer.
C24_FooterStatesTotal ==
  queryResult # None =>
    /\ RowsInOrder
    /\ Len(QueryRows) > PageRows =>
         TableView(QueryRows).footer
           = Some("Showing first 10 of " \o ToString(Len(QueryRows)) \o " results")
    /\ Len(QueryRows) <= PageRows => TableView(QueryRows).footer = None
\* a result of more rows than a page is on display, cut to the page
C24_Witness ==
  /\ queryResult # None
  /\ Len(QueryRows) = PageRows + 2
  /\ Len(TableView(QueryRows).rows) = PageRows
  /\ TableView(QueryRows).footer # None

\* C25: of a query result without rows the empty state is rendered, no
\* column header is computed and row 0 is not read.
C25_EmptyState ==
  (queryResult # None /\ Len(QueryRows) = 0) =>
    /\ TableView(QueryRows).kind = "empty"
    /\ TableView(QueryRows).text = Some(EmptyStateText)
    /\ TableView(QueryRows).headers = {}
    /\ 0 \notin TableView(QueryRows).reads
C25_Witness ==
  /\ queryResult # None
  /\ QueryRows = <<>>
  /\ TableView(QueryRows).kind = "empty"

\* the spellings of the four tiers the server sends
LowSpellings == {"low", "Low", "LOW"}
MediumSpellings == {"medium", "Medium", "MEDIUM"}
HighSpellings == {"high", "High", "HIGH"}
CriticalSpellings == {"critical", "Critical", "CRITICAL"}
\* the display bucket a class list stands for
Bucket(classes) ==
  IF Includes(classes, "green") THEN "positive"
  ELSE IF Includes(classes, "yellow") THEN "caution"
  ELSE IF Includes(classes, "orange") THEN "warning"
  ELSE IF Includes(classes, "red") THEN "danger"
  ELSE IF Includes(classes, "gray") THEN "neutral"
  ELSE "none"
SeverityTier == analysisResult[1].severity_level

\* C26: getSeverityColor maps every spelling of low, medium, high, critical
\* to the positive, caution, warning, danger bucket, and every other label,
\* an absent one included, to the neutral bucket.
C26_SeverityBuckets ==
  analysisResult # None =>
    Bucket(getSeverityColor(SeverityTier)) =
      IF SeverityTier = None THEN "neutral"
      ELSE IF SeverityTier[1] \in LowSpellings THEN "positive"
      ELSE IF SeverityTier[1] \in MediumSpellings THEN "caution"
      ELSE IF SeverityTier[1] \in HighSpellings THEN "warning"
      ELSE IF SeverityTier[1] \in CriticalSpellings THEN "danger"
      ELSE "neutral"
\* a report labelled CRITICAL is on display with the danger badge
C26_Witness ==
  /\ analysisResult # None
  /\ SeverityTier = Some("CRITICAL")
  /\ SeverityBadge(analysisResult[1]) = Some("text-red-700 bg-red-100 border-red-300")

\* C27: the asset built when the stop event of a recorder is handled holds
\* chunks of that recorder's session only, none of an earlier or a
\* concurrently started session, and the chunk list is empty when a session
\* starts.
C27_AssetOfOwnChunks ==
  [][ /\ SessionStarts => audioChunksRef' = <<>>
      /\ \A i \in 1..Len(sessions) :
           (sessions[i].rec = "stopping" /\ sessions'[i].rec = "inactive") =>
             /\ audioFile' # None
             /\ \A n \in 1..Len(audioFile'[1].data) : audioFile'[1].data[n] = i ]_vars

\* C28: when the stop event of a recorder has been handled its stream is
\* released and the chunk list is empty, and the list stays empty until the
\* next start.
C28_StopClearsChunks ==
  [][ /\ \A i \in 1..Len(sessions) :
           (sessions[i].rec = "stopping" /\ sessions'[i].rec = "inactive") =>
             /\ sessions'[i].stream = "stopped"
             /\ audioChunksRef' = <<>>
      /\ (OpenStreams = {} /\ ~StartRuns) => audioChunksRef' = <<>> ]_vars

\* C29: a pending request is never cancelled.  clearResults, a file
\* selection and the capture code leave the pending requests and the pending
\* flags as they are, the flag of a pending request is set, and the reply of
\* a pending request can still arrive and be applied.
C29_NeverCancelled ==
  /\ [][ (\/ clearResults
          \/ \E files \in FileLists : handleFileUpload(files)
          \/ StartRuns
          \/ StopTakesEffect
          \/ StopHandled) =>
           UNCHANGED <<analyzeCalls, askCalls, isAnalyzing, isQuerying>> ]_vars
  /\ []( /\ analyzeCalls # <<>> => (isAnalyzing /\ ENABLED AnalyzeReplyArrives)
         /\ askCalls # <<>> => (isQuerying /\ ENABLED AskReplyArrives) )
\* an analysis result is on display although the asset slot is empty: the
\* slot was cleared while the request was pending and the reply was applied
C29_Witness ==
  /\ audioFile = None
  /\ analysisResult # None
  /\ ~isAnalyzing
  /\ analyzeCalls = <<>>

\* C30: at most one interval timer is active, a timer is active only while
\* the recording flag is set, and the timer handle is not overwritten while
\* the timer it names is running.
C30_OneTimer ==
  /\ [](Cardinality(ActiveTimers) <= 1)
  /\ [](ActiveTimers # {} => isRecording)
  /\ [][ (recordingIntervalRef' # recordingIntervalRef) =>
           recordingIntervalRef \notin ActiveTimers ]_vars

\* C31: an accepted invocation of either orchestrator clears the one error
\* slot, whichever operation filled it and whether or not a request of the
\* other orchestrator is pending.
C31_AcceptanceClearsError ==
  [][ /\ Len(askCalls') > Len(askCalls) => error' = None
      /\ Len(analyzeCalls') > Len(analyzeCalls) => error' = None ]_vars
\* an analysis has failed, and with the question pending its message is gone
\* although no file was selected and no recording started since
C31_Witness ==
  /\ LastLine("Analysis error:")
  /\ error = None
  /\ isQuerying
  /\ Len(askCalls) = 1
  /\ audioFile = None
  /\ sessions = <<>>

\* a response with a success status whose body is not JSON
OkStatuses == { st \in Statuses : ResponseOk(st) }
UnparsedSuccess(st) == [rejected |-> FALSE, status |-> st, body |-> Unparseable]
ParseFailure == Some(JsonSyntaxMsg \o BackendHint)

\* C32: a response with a success status and a body that cannot be parsed
\* ends the request as a failure: the result stays absent, the error slot
\* holds the parse failure message with the backend hint, and the pending
\* flag is false again.
C32_UnparsedSuccessFails ==
  [][ /\ analyzeCalls' # analyzeCalls =>
           \A k \in 1..Len(analyzeCalls) : \A st \in OkStatuses :
             AnalyzeSettles(k, UnparsedSuccess(st)) =>
               /\ analysisResult = None
               /\ analysisResult' = None
               /\ error' = ParseFailure
               /\ ~isAnalyzing'
      /\ askCalls' # askCalls =>
           \A k \in 1..Len(askCalls) : \A st \in OkStatuses :
             AskSettles(k, UnparsedSuccess(st)) =>
               /\ queryResult = None
               /\ queryResult' = None
               /\ error' = ParseFailure
               /\ ~isQuerying' ]_vars
\* an analysis has ended with the parse failure on display and no result
C32_Witness ==
  /\ LastLine("Analysis error:")
  /\ error = ParseFailure
  /\ analysisResult = None
  /\ ~isAnalyzing
  /\ analyzeCalls = <<>>

\* C33: an analysis request uploads the asset that was current when
\* analyzeAudio was invoked and keeps it while it is pending, whatever
\* becomes of the asset slot; a result that arrives is the result of a
\* pending request's asset.  The slot can be refilled in the meantime, so
\* a result on display need not be the result of the current asset.
C33_UploadsAssetOfInvocation ==
  [][ /\ Len(analyzeCalls') > Len(analyzeCalls) =>
           /\ audioFile # None
           /\ analyzeCalls' = Append(analyzeCalls, [file |-> audioFile[1]])
      /\ audioFile' # audioFile =>
           \A k \in 1..Len(analyzeCalls) :
             k <= Len(analyzeCalls') /\ analyzeCalls'[k] = analyzeCalls[k]
      /\ (analysisResult' # analysisResult /\ analysisResult' # None) =>
           \E k \in 1..Len(analyzeCalls) :
             /\ analysisResult'[1].transcription = analyzeCalls[k].file.name
             /\ analysisResult'[1].audio = analyzeCalls[k].file.data ]_vars
\* the result of the selected file is on display, no analysis is pending,
\* and the asset slot holds a recording made in the meantime
C33_Witness ==
  /\ analysisResult # None
  /\ ~isAnalyzing
  /\ analyzeCalls = <<>>
  /\ audioFile # None
  /\ analysisResult[1].transcription = "report.wav"
  /\ audioFile[1].name = "pollution-report.wav"

\* C34: clearing is offered only with an analysis result or a query result
\* on display.  With both absent the Clear Results button delivers nothing,
\* whatever the error slot and the asset slot hold, and the asset slot is
\* emptied only in a state with a result.
C34_ClearOnlyWithResult ==
  /\ []((analysisResult = None /\ queryResult = None) => ~ENABLED ClickClear)
  /\ [][ (audioFile # None /\ audioFile' = None) =>
           (analysisResult # None \/ queryResult # None) ]_vars
\* a message and an asset are there, no result is, and no clear is offered
C34_Witness ==
  /\ error # None
  /\ audioFile # None
  /\ analysisResult = None
  /\ queryResult = None
  /\ ~isAnalyzing
  /\ ~isQuerying
  /\ ~ENABLED ClickClear
====
